---- MODULE Spec2Model ----
(***************************************************************************)
(* syntheticpg: MockSourcePg lands a generated batch in bronze.orders      *)
(* (populate_db) and derives bronze.orders_hash from it                    *)
(* (create_bronze_hash).  Both go through _write_df, one PostgreSQL        *)
(* transaction per call.  Several processes run against the same store.   *)
(*                                                                         *)
(* The store is PostgreSQL at READ COMMITTED: a statement sees what was    *)
(* committed when it starts plus the effects of its own transaction;       *)
(* table locks and transaction waits block a statement until the holder    *)
(* ends; a cycle of waits is broken by aborting one member.                *)
(***************************************************************************)
EXTENDS Integers, Sequences, FiniteSets, Bags, TLC

\* ------------------------------------------------------------------ bounds
MaxOps == 5             \* public API calls made in a run, over all processes
MaxStrLen == 4          \* length of the strings given to _norm and dv2_hash
MaxTokLen == 2          \* length of the strings of the separator inputs
MaxEdits == 2           \* formatting edits between two compared values
Procs == {"p1", "p2"}   \* processes (one MockSourcePg instance, one session each)

\* ------------------------------------------------------ strings and values
\* A string is a sequence of one-character strings; a value is a string or None.
None == [null |-> TRUE, s |-> <<>>]
Str(s) == [null |-> FALSE, s |-> s]

Digits == <<"0", "1", "2", "3", "4", "5", "6", "7", "8", "9">>
D(i) == Digits[(i % 10) + 1]

\* hashing._NULL
NULL_TOKEN == <<"§", "N", "U", "L", "L", "§">>

\* the characters \s matches
IsWS(c) == c \in {" ", "\t", "\n"}

\* str.upper on one character
UpperChar(c) ==
  CASE c = "a" -> "A" [] c = "b" -> "B" [] c = "c" -> "C" [] c = "h" -> "H"
    [] c = "l" -> "L" [] c = "n" -> "N" [] c = "s" -> "S" [] c = "u" -> "U"
    [] c = "x" -> "X" [] c = "y" -> "Y" [] OTHER -> c

Upper(s) == [i \in 1..Len(s) |-> UpperChar(s[i])]

RECURSIVE LStrip(_)
LStrip(s) == IF s # <<>> /\ IsWS(Head(s)) THEN LStrip(Tail(s)) ELSE s

RECURSIVE RStrip(_)
RStrip(s) ==
  IF s # <<>> /\ IsWS(s[Len(s)]) THEN RStrip(SubSeq(s, 1, Len(s) - 1)) ELSE s

\* str.strip
Strip(s) == RStrip(LStrip(s))

\* a variant that leaves whitespace runs as they are
CollapseNone(s) == s

\* _WS_RE.sub(" ", s): every maximal run of whitespace becomes one space
RECURSIVE CollapseWS(_)
CollapseWS(s) ==
  IF s = <<>> THEN <<>>
  ELSE IF IsWS(Head(s)) THEN <<" ">> \o CollapseWS(LStrip(s))
  ELSE <<Head(s)>> \o CollapseWS(Tail(s))

\* hashing._norm
Norm(v) ==
  IF v.null \/ v.s = <<>> THEN NULL_TOKEN
  ELSE LET s == CollapseWS(Upper(Strip(v.s)))
       IN  IF s = <<>> THEN NULL_TOKEN ELSE s

\* "|".join(tokens)
RECURSIVE Join(_)
Join(toks) ==
  IF toks = <<>> THEN <<>>
  ELSE IF Len(toks) = 1 THEN toks[1]
  ELSE toks[1] \o <<"|">> \o Join(Tail(toks))

\* hashlib.sha256(...).hexdigest(): a digest is determined by the hashed
\* string and, collisions being negligible, determines it.
Sha256Hex(s) == <<"sha256">> \o s

\* hashing.dv2_hash
dv2_hash(cols) == Sha256Hex(Join([i \in 1..Len(cols) |-> Norm(cols[i])]))

\* the generator expression of dv2_hash: the normalized tokens
Tokens(cols) == [i \in 1..Len(cols) |-> Norm(cols[i])]

\* ---------------------------------------------------- inputs of the hashing
\* the strings over an alphabet, up to a length
RECURSIVE StringsOver(_, _)
StringsOver(A, n) ==
  IF n = 0 THEN {<<>>}
  ELSE LET T == StringsOver(A, n - 1)
       IN  T \cup {t \o <<c>> : t \in {u \in T : Len(u) = n - 1}, c \in A}

\* the values given to _norm: None, the strings of letters in both cases and
\* whitespace, and the strings that spell the sentinel
SENTINEL_LOWER == <<"§", "n", "u", "l", "l", "§">>
NormInputs ==
  {None, Str(NULL_TOKEN), Str(SENTINEL_LOWER)}
    \cup {Str(t) : t \in StringsOver({"a", "A", " "}, MaxStrLen)}

\* the values of the separator inputs: strings of a letter and the separator,
\* and three strings of other letters around a separator
TokInputs ==
  {Str(t) : t \in StringsOver({"a", "|"}, MaxTokLen)}
    \cup {Str(<<"a", "|", "b">>), Str(<<"c">>), Str(<<"b", "|", "c">>)}

\* str.swapcase on one character
SwapCase(c) == CASE c = "a" -> "A" [] c = "A" -> "a" [] OTHER -> c

\* the string without its i-th character / with a space put in after it
DropAt(t, i) == SubSeq(t, 1, i - 1) \o SubSeq(t, i + 1, Len(t))
SpaceAfter(t, i) == SubSeq(t, 1, i) \o <<" ">> \o SubSeq(t, i + 1, Len(t))

\* one formatting edit of a string: the case of one letter, one space more
\* or less around it, one space more or less in a run of spaces
EditsOf(t) ==
  {[t EXCEPT ![i] = SwapCase(t[i])] : i \in 1..Len(t)}
    \cup (IF Len(t) < MaxStrLen THEN {<<" ">> \o t, t \o <<" ">>} ELSE {})
    \cup (IF t # <<>> /\ Head(t) = " " THEN {Tail(t)} ELSE {})
    \cup (IF t # <<>> /\ t[Len(t)] = " " THEN {DropAt(t, Len(t))} ELSE {})
    \cup (IF Len(t) < MaxStrLen
          THEN {SpaceAfter(t, i) : i \in {j \in 1..Len(t) : t[j] = " "}} ELSE {})
    \cup {DropAt(t, i) : i \in {j \in 1..(Len(t) - 1) : t[j] = " " /\ t[j + 1] = " "}}

\* one formatting edit of a value: of its string, or null for the empty string
EditsOfValue(v) ==
  IF v.null THEN {Str(<<>>)}
  ELSE {Str(t) : t \in EditsOf(v.s)} \cup (IF v.s = <<>> THEN {None} ELSE {})

\* the values that differ from v by at most n formatting edits
RECURSIVE Variants(_, _)
Variants(v, n) ==
  IF n = 0 THEN {v}
  ELSE LET V == Variants(v, n - 1) IN V \cup UNION {EditsOfValue(w) : w \in V}

\* the values of the formatting inputs, and the few values of a second column
FormatInputs == {None} \cup {Str(t) : t \in StringsOver({"a", "A", " "}, MaxStrLen)}
FewInputs == {None, Str(<<"a">>)}

\* what is given to the hashing functions: one value to _norm, or a column
\* sequence to dv2_hash, of separator inputs or of formatting inputs
HashInputs ==
  {[kind |-> "norm", v |-> v] : v \in NormInputs}
    \cup {[kind |-> "join", a |-> <<x, y>>] : x \in TokInputs, y \in TokInputs}
    \cup {[kind |-> "format", a |-> <<v>>] : v \in FormatInputs}
    \cup {[kind |-> "format", a |-> <<v, x>>] : v \in FormatInputs, x \in FewInputs}

\* the column sequences a given one is compared with: any sequence of
\* separator inputs of the same length, or the sequences that differ from it
\* in formatting only
ComparedWith(in) ==
  IF in.kind = "join"
  THEN {<<z, w>> : z \in TokInputs, w \in TokInputs}
  ELSE IF Len(in.a) = 1
  THEN {<<w>> : w \in Variants(in.a[1], MaxEdits)}
  ELSE {<<w, y>> : w \in Variants(in.a[1], MaxEdits), y \in Variants(in.a[2], MaxEdits)}

\* --------------------------------------------------------------- the batch
\* MockSourcePg.columns, in order
columns == <<"col1_bk", "col2_bk", "col3_fk", "col4_fk", "col5", "col6", "col7", "col8">>
RawCols == {columns[i] : i \in 1..Len(columns)}
MetaCols == {"bk_hash", "row_hash", "load_dts", "record_source"}

\* Row i of _create_df(n): random.Random(42) makes the frame a function of
\* n alone.  col1_bk is the row number; col2_bk is drawn before every other
\* column, so it does not depend on n; the later columns are drawn from a
\* stream position that depends on n, and some of them are None.
GenRow(i, n) ==
  << Str(<<"C", "-", D(i)>>),
     Str(<<"S", "-", D(1 + ((3 * i + 2) % 5))>>),
     IF (i + n) % 3 = 0 THEN None ELSE Str(<<"H", "-", D(i + 2 * n)>>),
     IF (i + 2 * n) % 4 = 0 THEN None ELSE Str(<<"H", "-", D(2 * i + n)>>),
     Str(<<"a", "X", D(i), D(n)>>),
     Str(<<D(i + n)>>),
     IF (i + n) % 2 = 0 THEN None ELSE Str(<<"y", D(n)>>),
     None >>

\* MockSourcePg._create_df: the bag of the n generated rows
_create_df(n) == SetToBag({GenRow(i, n) : i \in 0..(n - 1)})

\* Settings.row_count of each process: the two processes are configured with
\* different batch sizes
RowCountOf(p) == IF p = "p1" THEN 1 ELSE 2

\* Settings.record_source of each process (the default, and an override)
RecordSourceOf(p) == IF p = "p1" THEN "GEN_SYNTH" ELSE "GEN_B"

\* a variant that also hashes the load timestamp into row_hash
EnrichHashDts(r, now, src) ==
  [cols |-> r,
   bk_hash |-> dv2_hash(<<r[1], r[2]>>),
   row_hash |-> dv2_hash(r \o <<Str(<<D(now)>>)>>),
   load_dts |-> now,
   record_source |-> src]

\* the with_columns of create_bronze_hash, for one raw row
Enrich(r, now, src) ==
  [cols |-> r,
   bk_hash |-> dv2_hash(<<r[1], r[2]>>),
   row_hash |-> dv2_hash(r),
   load_dts |-> now,
   record_source |-> src]

\* the identity of a hashed row
KeyOf(h) == <<h.bk_hash, h.row_hash>>

\* ----------------------------------------------------------------- bags
BagSize(b) == BagCardinality(b)
BagOfOne(x) == SetToBag({x})

\* the frame built from the rows read from bronze: same multiplicities
EnrichBag(rows, now, src) ==
  LET hs == {Enrich(r, now, src) : r \in BagToSet(rows)}
  IN  [h \in hs |-> CopiesIn(h.cols, rows)]


\* ---------------------------------------------------------------- the store
\* MockSourcePg.tbl_bronze and tbl_bhash under the default Settings.table_name
tbl_bronze == "orders"
tbl_bhash == "orders_hash"
Tables == {tbl_bronze, tbl_bhash}

NoTable == [exists |-> FALSE, cols |-> {}, rows |-> EmptyBag, pk |-> 0]
NoTemp == [exists |-> FALSE, rows |-> EmptyBag]
NoTx == [active |-> FALSE, created |-> FALSE, addedPk |-> FALSE,
         ins |-> EmptyBag, locks |-> {}, temp |-> NoTemp]
NoLoc == [op |-> "none", table |-> tbl_bronze, pk |-> FALSE, cols |-> {},
          df |-> EmptyBag, height |-> 0, nread |-> 0, sawTable |-> FALSE, sawPk |-> FALSE,
          alterIssued |-> FALSE, todo |-> EmptyBag, cur |-> {}, skipped |-> 0]
NoRes == [op |-> "none", ret |-> -1, err |-> "none", inserted |-> 0]

VARIABLES
  db,      \* committed tables: [exists, cols, rows (a bag), pk (number of identity constraints)]
  sess,    \* per process and target table: the session's temp table _<table>_stage
  pc,      \* per process: the statement it is about to run
  loc,     \* per process: the locals of the running call (df, table, pk, ...)
  tx,      \* per process: the open transaction's uncommitted effects and locks
  res,     \* per process: outcome of its last finished call
  ops,     \* public API calls started so far
  fed,     \* raw rows that were in the batch of a committed hashed merge
  landed,  \* per process: populate_db calls that returned
  hin,     \* the values handed to the hashing functions when they are exercised alone
  hout     \* what the hashing functions returned for hin

vars == <<db, sess, pc, loc, tx, res, ops, fed, landed, hin, hout>>

\* a variant that passes pk=None for both tables
PkOfNone(table) == FALSE

\* the pk argument of _write_df at its two call sites
PkOf(table) == table = tbl_bhash

\* ------------------------------------------------------ what a statement sees
Tgt(p) == loc[p].table
VisExists(p) == db[Tgt(p)].exists \/ tx[p].created
VisCols(p) == IF tx[p].created THEN loc[p].cols ELSE db[Tgt(p)].cols
VisPk(p) == db[Tgt(p)].pk + (IF tx[p].addedPk THEN 1 ELSE 0)
Others(p) == {q \in Procs : q # p /\ tx[q].active /\ Tgt(q) = Tgt(p)}

Keys(rows) == {KeyOf(h) : h \in BagToSet(rows)}

\* ------------------------------------------------------------- lock waits
\* CREATE TABLE waits for a transaction that created the same name and has
\* not ended.
CreateWaits(p) == {q \in Others(p) : tx[q].created}

\* ALTER TABLE needs ACCESS EXCLUSIVE: it waits for every other holder of a
\* lock on the table (a table created in this transaction is seen by nobody).
AlterWaits(p) == IF tx[p].created THEN {} ELSE {q \in Others(p) : tx[q].locks # {}}

\* SELECT ... FROM the target needs ACCESS SHARE: it waits for a holder of
\* ACCESS EXCLUSIVE and, holding no lock itself, queues behind a waiter for it.
StageWaits(p) ==
  IF tx[p].created THEN {}
  ELSE {q \in Others(p) : "AccessExclusive" \in tx[q].locks
                          \/ (pc[q] = "alter" /\ AlterWaits(q) # {})}

\* ON CONFLICT waits for the transaction whose uncommitted row has the key.
RowWaits(p) ==
  IF loc[p].cur = {} \/ tx[p].created THEN {}
  ELSE {q \in Others(p) : \E h \in loc[p].cur : KeyOf(h) \in Keys(tx[q].ins)}

WaitsFor(p) ==
  CASE pc[p] = "create" -> CreateWaits(p)
    [] pc[p] = "stage" -> StageWaits(p)
    [] pc[p] = "alter" -> AlterWaits(p)
    [] pc[p] = "insert" -> RowWaits(p)
    [] OTHER -> {}

RECURSIVE ReachFrom(_, _)
ReachFrom(S, n) ==
  IF n = 0 THEN S
  ELSE ReachFrom(S \cup UNION {WaitsFor(q) : q \in S}, n - 1)

\* p waits, directly or not, for a transaction that waits for p
InWaitCycle(p) == p \in ReachFrom(WaitsFor(p), Cardinality(Procs)) /\ WaitsFor(p) # {}

\* ------------------------------------------------------------ _write_df
\* a variant in which the DROP TABLE IF EXISTS has no effect
DropNothing(t) == t

\* the statements of step 2 and 3 on the session's temp table
DropIfExists(t) == NoTemp
CreateTempAs(t) == [exists |-> TRUE, rows |-> EmptyBag]
LoadInto(t, df) == [t EXCEPT !.rows = @ (+) df]

\* a variant of the DO block without the IF NOT EXISTS test
NeedsAlterAlways(sawPk) == TRUE

\* the IF NOT EXISTS (...) of the DO block: ALTER TABLE runs when no
\* constraint of the name was found
NeedsAlter(sawPk) == ~sawPk

\* a variant with ON CONFLICT on bk_hash alone
ConflictsBkOnly(h, present) == h.bk_hash \in {g.bk_hash : g \in BagToSet(present)}

\* ON CONFLICT ("bk_hash","row_hash") DO NOTHING: the row is skipped when a
\* row with its identity is already in the table (committed, or inserted
\* earlier by this statement)
Conflicts(h, present) == KeyOf(h) \in Keys(present)

\* a variant in which the statements were autocommitted: what the call had
\* written stays
RaiseKeepsWrites(p, e, newloc) ==
  /\ tx' = [tx EXCEPT ![p] = NoTx]
  /\ pc' = [pc EXCEPT ![p] = "idle"]
  /\ loc' = [loc EXCEPT ![p] = newloc]
  /\ res' = [res EXCEPT ![p] = [op |-> loc[p].op, ret |-> -1, err |-> e, inserted |-> 0]]
  /\ db' = [db EXCEPT ![Tgt(p)] = [exists |-> VisExists(p), cols |-> VisCols(p),
                                   rows |-> @.rows (+) tx[p].ins, pk |-> VisPk(p)]]
  /\ UNCHANGED <<sess, ops, fed, landed, hin, hout>>

\* the exception leaves the with block: the transaction is rolled back and
\* the call raises
Raise(p, e, newloc) ==
  /\ tx' = [tx EXCEPT ![p] = NoTx]
  /\ pc' = [pc EXCEPT ![p] = "idle"]
  /\ loc' = [loc EXCEPT ![p] = newloc]
  /\ res' = [res EXCEPT ![p] = [op |-> loc[p].op, ret |-> -1, err |-> e, inserted |-> 0]]
  /\ UNCHANGED <<db, sess, ops, fed, landed, hin, hout>>

\* populate_db up to the call of _write_df
PopulateDb(p) ==
  /\ pc[p] = "idle"
  /\ ops < MaxOps
  /\ LET df == _create_df(RowCountOf(p))
     IN  loc' = [loc EXCEPT ![p] =
                   [NoLoc EXCEPT !.op = "populate_db", !.table = tbl_bronze,
                                 !.pk = PkOf(tbl_bronze), !.cols = RawCols,
                                 !.df = df, !.height = BagSize(df)]]
  /\ tx' = [tx EXCEPT ![p] = [NoTx EXCEPT !.active = TRUE]]
  /\ pc' = [pc EXCEPT ![p] = "has_table"]
  /\ ops' = ops + 1
  /\ res' = [res EXCEPT ![p] = NoRes]
  /\ UNCHANGED <<db, sess, fed, landed, hin, hout>>

\* datetime.now(timezone.utc) of a call: later calls read later instants
Now == ops

\* a variant without the early return
IsEmptyNever(rows) == FALSE

\* pdf.empty
IsEmpty(rows) == rows = EmptyBag

\* create_bronze_hash up to the call of _write_df: read bronze, return 0 on
\* an empty frame, else add the hash and meta columns
ReadBronze(p) ==
  /\ pc[p] = "idle"
  /\ ops < MaxOps
  /\ ops' = ops + 1
  /\ LET raw == db[tbl_bronze]
         started == [NoLoc EXCEPT !.op = "create_bronze_hash", !.table = tbl_bhash,
                                  !.pk = PkOf(tbl_bhash)]
     IN  IF ~raw.exists
         THEN /\ res' = [res EXCEPT ![p] = [op |-> "create_bronze_hash", ret |-> -1,
                                            err |-> "UndefinedTable", inserted |-> 0]]
              /\ loc' = [loc EXCEPT ![p] = started]
              /\ UNCHANGED <<pc, tx>>
         ELSE IF IsEmpty(raw.rows)
         THEN /\ res' = [res EXCEPT ![p] = [op |-> "create_bronze_hash", ret |-> 0,
                                            err |-> "none", inserted |-> 0]]
              /\ loc' = [loc EXCEPT ![p] = started]
              /\ UNCHANGED <<pc, tx>>
         ELSE LET df == EnrichBag(raw.rows, Now, RecordSourceOf(p))
              IN  /\ loc' = [loc EXCEPT ![p] =
                               [started EXCEPT !.cols = raw.cols \cup MetaCols,
                                               !.nread = BagSize(raw.rows),
                                               !.df = df, !.height = BagSize(df)]]
                  /\ tx' = [tx EXCEPT ![p] = [NoTx EXCEPT !.active = TRUE]]
                  /\ pc' = [pc EXCEPT ![p] = "has_table"]
                  /\ res' = [res EXCEPT ![p] = NoRes]
  /\ UNCHANGED <<db, sess, fed, landed, hin, hout>>

\* step 1, to_sql(if_exists="append") of the empty frame: look the table up
HasTable(p) ==
  /\ pc[p] = "has_table"
  /\ loc' = [loc EXCEPT ![p].sawTable = db[Tgt(p)].exists]
  /\ pc' = [pc EXCEPT ![p] = IF db[Tgt(p)].exists THEN "stage" ELSE "create"]
  /\ UNCHANGED <<db, sess, tx, res, ops, fed, landed, hin, hout>>

\* step 1, the table was not found: CREATE TABLE with the frame's columns
CreateTable(p) ==
  /\ pc[p] = "create"
  /\ CreateWaits(p) = {}
  /\ IF db[Tgt(p)].exists
     THEN Raise(p, "DuplicateTable", loc[p])
     ELSE /\ tx' = [tx EXCEPT ![p].created = TRUE]
          /\ pc' = [pc EXCEPT ![p] = "stage"]
          /\ UNCHANGED <<db, sess, loc, res, ops, fed, landed, hin, hout>>

\* steps 2 and 3: drop and re-create the temp table from the target's
\* columns, then load the frame into it
Stage(p) ==
  /\ pc[p] = "stage"
  /\ StageWaits(p) = {}
  /\ LET dropped == DropIfExists(sess[p][Tgt(p)])
     IN  IF dropped.exists
         THEN Raise(p, "DuplicateTemp", loc[p])
         ELSE IF ~(loc[p].cols \subseteq VisCols(p))
         THEN Raise(p, "UndefinedColumn", loc[p])
         ELSE /\ tx' = [tx EXCEPT ![p].temp = LoadInto(CreateTempAs(dropped), loc[p].df),
                                  ![p].locks = @ \cup {"AccessShare"}]
              /\ pc' = [pc EXCEPT ![p] = IF loc[p].pk THEN "pk_check" ELSE "append"]
              /\ UNCHANGED <<db, sess, loc, res, ops, fed, landed, hin, hout>>

\* the INSERT ... SELECT starts: it scans the temp table in an order the
\* store chooses, h being the first row
BeginInsert(p, newloc, newtx, h) ==
  /\ h \in BagToSet(newtx.temp.rows)
  /\ loc' = [loc EXCEPT ![p] = [newloc EXCEPT !.todo = newtx.temp.rows (-) BagOfOne(h),
                                              !.cur = {h}]]
  /\ tx' = [tx EXCEPT ![p] = [newtx EXCEPT !.locks = @ \cup {"RowExclusive"}]]
  /\ pc' = [pc EXCEPT ![p] = "insert"]

\* step 4, the DO block: look the constraint up by name and, when it is not
\* found, issue the ALTER TABLE
PkCheck(p) ==
  /\ pc[p] = "pk_check"
  /\ LET saw == VisPk(p) > 0
         newloc == [loc[p] EXCEPT !.sawPk = saw]
     IN  IF NeedsAlter(saw)
         THEN /\ loc' = [loc EXCEPT ![p] = [newloc EXCEPT !.alterIssued = TRUE]]
              /\ pc' = [pc EXCEPT ![p] = "alter"]
              /\ UNCHANGED tx
         ELSE \E h \in BagToSet(tx[p].temp.rows) : BeginInsert(p, newloc, tx[p], h)
  /\ UNCHANGED <<db, sess, res, ops, fed, landed, hin, hout>>

\* step 4, the DO block: ALTER TABLE ... ADD CONSTRAINT ... PRIMARY KEY gets
\* its lock and runs
AlterAddPk(p) ==
  /\ pc[p] = "alter"
  /\ AlterWaits(p) = {}
  /\ LET newloc == loc[p]
         rows == db[Tgt(p)].rows
     IN  IF VisPk(p) > 0
         THEN Raise(p, "MultiplePrimaryKeys", newloc)
         ELSE IF Cardinality(Keys(rows)) # BagSize(rows)
         THEN Raise(p, "UniqueViolation", newloc)
         ELSE /\ \E h \in BagToSet(tx[p].temp.rows) :
                   BeginInsert(p, newloc,
                               [tx[p] EXCEPT !.addedPk = TRUE,
                                             !.locks = @ \cup {"AccessExclusive"}], h)
              /\ UNCHANGED <<db, sess, res, ops, fed, landed, hin, hout>>

\* step 4, INSERT ... ON CONFLICT DO NOTHING, one row of the scan
InsertRow(p) ==
  /\ pc[p] = "insert"
  /\ RowWaits(p) = {}
  /\ \E h \in loc[p].cur :
       IF VisPk(p) = 0
       THEN Raise(p, "NoConflictArbiter", loc[p])
       ELSE LET skip == Conflicts(h, db[Tgt(p)].rows (+) tx[p].ins)
                ins == IF skip THEN tx[p].ins ELSE tx[p].ins (+) BagOfOne(h)
                sk == loc[p].skipped + (IF skip THEN 1 ELSE 0)
            IN  /\ tx' = [tx EXCEPT ![p].ins = ins]
                /\ IF loc[p].todo = EmptyBag
                   THEN /\ loc' = [loc EXCEPT ![p].cur = {}, ![p].skipped = sk]
                        /\ pc' = [pc EXCEPT ![p] = "commit"]
                   ELSE /\ \E n \in BagToSet(loc[p].todo) :
                             loc' = [loc EXCEPT ![p].cur = {n}, ![p].skipped = sk,
                                                ![p].todo = @ (-) BagOfOne(n)]
                        /\ UNCHANGED pc
                /\ UNCHANGED <<db, sess, res, ops, fed, landed, hin, hout>>

\* the else branch, pk is None: INSERT ... SELECT of every staged row
AppendAll(p) ==
  /\ pc[p] = "append"
  /\ tx' = [tx EXCEPT ![p].ins = tx[p].temp.rows,
                      ![p].locks = @ \cup {"RowExclusive"}]
  /\ pc' = [pc EXCEPT ![p] = "commit"]
  /\ UNCHANGED <<db, sess, loc, res, ops, fed, landed, hin, hout>>

\* a variant in which the batch replaces the target's rows
MergeRowsReplace(old, ins) == ins

\* the target's rows once the INSERT of a committed call has taken effect
MergeRows(old, ins) == old (+) ins

\* a variant that returns the number of rows the INSERT added
ReturnedInserted(p) == BagSize(tx[p].ins)

\* the value the public method returns after _write_df
Returned(p) == loc[p].height

\* the with block ends: COMMIT, the connection goes back to the pool with
\* its temp table, and the public method returns
Commit(p) ==
  /\ pc[p] = "commit"
  /\ db' = [db EXCEPT ![Tgt(p)] = [exists |-> TRUE, cols |-> VisCols(p),
                                   rows |-> MergeRows(@.rows, tx[p].ins),
                                   pk |-> VisPk(p)]]
  /\ sess' = [sess EXCEPT ![p][Tgt(p)] = tx[p].temp]
  /\ tx' = [tx EXCEPT ![p] = NoTx]
  /\ pc' = [pc EXCEPT ![p] = "idle"]
  /\ res' = [res EXCEPT ![p] = [op |-> loc[p].op, ret |-> Returned(p), err |-> "none",
                                inserted |-> BagSize(tx[p].ins)]]
  /\ fed' = IF loc[p].op = "create_bronze_hash"
            THEN fed \cup {h.cols : h \in BagToSet(loc[p].df)} ELSE fed
  /\ landed' = IF loc[p].op = "populate_db" THEN [landed EXCEPT ![p] = @ + 1] ELSE landed
  /\ UNCHANGED <<loc, ops, hin, hout>>

\* the store's deadlock detector aborts a transaction of a wait cycle
DeadlockAbort(p) ==
  /\ tx[p].active
  /\ InWaitCycle(p)
  /\ Raise(p, "DeadlockDetected", loc[p])

\* any statement of the with block, or the COMMIT, fails in the store
\* (connection lost, statement cancelled, ...)
StoreFailure(p) ==
  /\ tx[p].active
  /\ Raise(p, "StoreError", [NoLoc EXCEPT !.op = loc[p].op, !.table = loc[p].table,
                                         !.sawTable = loc[p].sawTable,
                                         !.alterIssued = loc[p].alterIssued])

\* ------------------------------------------------------------ specifications
InitProcs ==
  /\ sess = [p \in Procs |-> [t \in Tables |-> NoTemp]]
  /\ pc = [p \in Procs |-> "idle"]
  /\ loc = [p \in Procs |-> NoLoc]
  /\ tx = [p \in Procs |-> NoTx]
  /\ res = [p \in Procs |-> NoRes]
  /\ ops = 0
  /\ fed = {}
  /\ landed = [p \in Procs |-> 0]

\* the hashing functions are not exercised alone
NoHashing ==
  /\ hin = [kind |-> "none"]
  /\ hout = [done |-> FALSE]

\* a store in which only the schema exists (after create_db)
Init ==
  /\ db = [t \in Tables |-> NoTable]
  /\ InitProcs
  /\ NoHashing

Next ==
  \E p \in Procs :
    \/ PopulateDb(p)
    \/ ReadBronze(p)
    \/ HasTable(p)
    \/ CreateTable(p)
    \/ Stage(p)
    \/ PkCheck(p)
    \/ AlterAddPk(p)
    \/ InsertRow(p)
    \/ AppendAll(p)
    \/ Commit(p)
    \/ DeadlockAbort(p)

Spec == Init /\ [][Next]_vars

\* the same program against a store in which statements can fail
NextFail == Next \/ \E p \in Procs : StoreFailure(p)

SpecFail == Init /\ [][NextFail]_vars

\* shapes in which bronze.orders may exist before the program runs: the
\* generated columns, one column more, one column less
Shapes == {RawCols, RawCols \cup {"col9"}, RawCols \ {"col8"}}

\* app.main: one process works on the store
Main == "p1"

\* bronze.orders_hash as an earlier run of the program left it
HashedBefore ==
  [exists |-> TRUE, cols |-> RawCols \cup MetaCols, pk |-> 1,
   rows |-> BagOfOne(Enrich(GenRow(0, 1), 0, RecordSourceOf(Main)))]

\* a store in which bronze.orders exists and is empty, in one of the shapes,
\* and bronze.orders_hash does not exist or is left from an earlier run
InitShape ==
  /\ \E cs \in Shapes : \E hashed \in {NoTable, HashedBefore} :
       db = [t \in Tables |-> IF t = tbl_bronze
                              THEN [exists |-> TRUE, cols |-> cs, rows |-> EmptyBag, pk |-> 0]
                              ELSE hashed]
  /\ InitProcs
  /\ NoHashing

\* its calls come in any order
NextMain ==
  \/ PopulateDb(Main)
  \/ ReadBronze(Main)
  \/ HasTable(Main)
  \/ CreateTable(Main)
  \/ Stage(Main)
  \/ PkCheck(Main)
  \/ AlterAddPk(Main)
  \/ InsertRow(Main)
  \/ AppendAll(Main)
  \/ Commit(Main)

SpecShape == InitShape /\ [][NextMain]_vars

\* _norm is called on the given value and on None
NormApply ==
  /\ hin.kind = "norm"
  /\ ~hout.done
  /\ hout' = [done |-> TRUE, norm |-> Norm(hin.v), ofNone |-> Norm(None)]
  /\ UNCHANGED <<db, sess, pc, loc, tx, res, ops, fed, landed, hin>>

\* dv2_hash is called on the given column sequence and on one it is
\* compared with
Dv2Apply ==
  /\ hin.kind \in {"join", "format"}
  /\ ~hout.done
  /\ \E b \in ComparedWith(hin) :
       hout' = [done |-> TRUE, b |-> b,
                toksA |-> Tokens(hin.a), toksB |-> Tokens(b),
                joinedA |-> Join(Tokens(hin.a)), joinedB |-> Join(Tokens(b)),
                digestA |-> dv2_hash(hin.a), digestB |-> dv2_hash(b)]
  /\ UNCHANGED <<db, sess, pc, loc, tx, res, ops, fed, landed, hin>>

\* the hashing functions alone, on every input
InitHash ==
  /\ db = [t \in Tables |-> NoTable]
  /\ InitProcs
  /\ hin \in HashInputs
  /\ hout = [done |-> FALSE]

NextHash == NormApply \/ Dv2Apply

SpecHash == InitHash /\ [][NextHash]_vars

\* values of an attribute column of a raw record
AttrInputs == {None, Str(<<>>), Str(<<"a">>), Str(<<"A">>), Str(<<"x">>)}

\* a store in which bronze.orders holds two records that are the same but
\* for one attribute column
InitRows ==
  /\ \E k \in 3..Len(columns) : \E v \in AttrInputs, w \in AttrInputs :
       /\ v # w
       /\ db = [t \in Tables |->
                  IF t = tbl_bronze
                  THEN [exists |-> TRUE, cols |-> RawCols, pk |-> 0,
                        rows |-> SetToBag({[GenRow(0, 1) EXCEPT ![k] = v],
                                           [GenRow(0, 1) EXCEPT ![k] = w]})]
                  ELSE NoTable]
  /\ InitProcs
  /\ NoHashing

\* create_bronze_hash is called by one process, again and again
NextRows ==
  \/ ReadBronze(Main)
  \/ HasTable(Main)
  \/ CreateTable(Main)
  \/ Stage(Main)
  \/ PkCheck(Main)
  \/ AlterAddPk(Main)
  \/ InsertRow(Main)
  \/ Commit(Main)

SpecRows == InitRows /\ [][NextRows]_vars

\* a store in which bronze.orders_hash may have been created before, with the
\* hashed columns and without its identity constraint
InitPre ==
  /\ db \in {[t \in Tables |-> NoTable],
             [t \in Tables |-> IF t = tbl_bhash
                               THEN [exists |-> TRUE, cols |-> RawCols \cup MetaCols,
                                     rows |-> EmptyBag, pk |-> 0]
                               ELSE NoTable]}
  /\ InitProcs
  /\ NoHashing

SpecPre == InitPre /\ [][Next]_vars

TypeOK ==
  /\ \A t \in Tables : db[t].pk \in Nat /\ db[t].exists \in BOOLEAN
  /\ ops \in 0..MaxOps


\* ------------------------------------------------------------------ claims
Hashed == db[tbl_bhash].rows
Bronze == db[tbl_bronze].rows
IsHash(p) == loc[p].op = "create_bronze_hash"
\* p's call of _write_df has ended with COMMIT in this step
Commits(p) == pc[p] = "commit" /\ pc'[p] = "idle"
\* p's last call has returned normally
ReturnedOk(p, op) == pc[p] = "idle" /\ res[p].op = op /\ res[p].err = "none"

\* C1: no two rows of the hashed target have the same (bk_hash, row_hash).
NoDuplicateIdentity == BagSize(Hashed) = Cardinality(Keys(Hashed))

\* a merge whose batch repeated an identity has committed
NoDuplicateIdentityWitness ==
  \E p \in Procs :
    /\ ReturnedOk(p, "create_bronze_hash")
    /\ loc[p].height > Cardinality(Keys(loc[p].df))
    /\ res[p].inserted > 0
    /\ BagSize(Hashed) >= 2

\* C2: a committed hashed merge whose raw rows were all in the batch of an
\* earlier committed merge leaves the hashed target as it was.
IdempotentHashedLanding ==
  [][\A p \in Procs :
       (/\ Commits(p)
        /\ IsHash(p)
        /\ {h.cols : h \in BagToSet(loc[p].df)} \subseteq fed)
       => db'[tbl_bhash].rows = Hashed]_vars

\* a re-run over raw rows that bronze holds several times has committed and
\* added nothing
IdempotentHashedLandingWitness ==
  \E p \in Procs :
    /\ ReturnedOk(p, "create_bronze_hash")
    /\ res[p].inserted = 0
    /\ loc[p].height > 0
    /\ \E r \in BagToSet(Bronze) : CopiesIn(r, Bronze) >= 2 /\ r \in fed
    /\ \A h \in BagToSet(loc[p].df) : h \notin BagToSet(Hashed)

\* C3: when a hashed merge commits, the identities of the target are those it
\* had before together with those of the staged batch, one row for each.
MergeIsUnionOfIdentities ==
  [][\A p \in Procs :
       (Commits(p) /\ IsHash(p))
       => /\ Keys(db'[tbl_bhash].rows) = Keys(Hashed) \cup Keys(tx[p].temp.rows)
          /\ BagSize(db'[tbl_bhash].rows) = Cardinality(Keys(db'[tbl_bhash].rows))]_vars

\* a batch of four rows with two identities, each twice, has been merged
\* into two rows
MergeIsUnionOfIdentitiesWitness ==
  \E p \in Procs :
    /\ ReturnedOk(p, "create_bronze_hash")
    /\ loc[p].height = 4
    /\ Cardinality(Keys(loc[p].df)) = 2
    /\ res[p].inserted = 2
    /\ BagSize(Hashed) = 2

\* C4: no step changes or removes a row of the hashed target.
FirstWriterWins ==
  [][\A h \in BagToSet(Hashed) :
       CopiesIn(h, db'[tbl_bhash].rows) = CopiesIn(h, Hashed)]_vars

\* a merge has committed whose batch had a row with a persisted identity and
\* another load_dts and record_source; the persisted row is still there
FirstWriterWinsWitness ==
  \E p \in Procs :
    /\ ReturnedOk(p, "create_bronze_hash")
    /\ loc[p].skipped > 0
    /\ \E h \in BagToSet(loc[p].df), g \in BagToSet(Hashed) :
         /\ KeyOf(h) = KeyOf(g)
         /\ h.load_dts # g.load_dts
         /\ h.record_source # g.record_source

RECURSIVE LandedCopies(_, _)
\* the copies of raw row r in the batches of the populate_db calls of the
\* processes S that returned
LandedCopies(S, r) ==
  IF S = {} THEN 0
  ELSE LET p == CHOOSE x \in S : TRUE
       IN  landed[p] * CopiesIn(r, _create_df(RowCountOf(p))) + LandedCopies(S \ {p}, r)

\* C5: bronze holds exactly the rows of the batches of the populate_db calls
\* that returned, each as often as it was landed, and populate_db returns
\* the batch size.
RawLandingIsAppend ==
  /\ \A r \in BagToSet(Bronze) \cup UNION {BagToSet(_create_df(RowCountOf(p))) : p \in Procs} :
       CopiesIn(r, Bronze) = LandedCopies(Procs, r)
  /\ \A p \in Procs : ReturnedOk(p, "populate_db") => res[p].ret = RowCountOf(p)

\* one process has landed its batch twice and another once
RawLandingIsAppendWitness ==
  \E p, q \in Procs :
    /\ p # q
    /\ landed[p] >= 2
    /\ landed[q] >= 1
    /\ ReturnedOk(p, "populate_db")
    /\ BagSize(Bronze) = 2 * RowCountOf(p) + landed[q] * RowCountOf(q)

\* C6: create_bronze_hash returns the number of rows it read from bronze.
ReturnIsRowsRead ==
  \A p \in Procs : ReturnedOk(p, "create_bronze_hash") => res[p].ret = loc[p].nread

\* a re-run has inserted nothing and returned the number of rows read
ReturnIsRowsReadWitness ==
  \E p \in Procs :
    /\ ReturnedOk(p, "create_bronze_hash")
    /\ res[p].inserted = 0
    /\ res[p].ret >= 2

\* C7: the hashed target never has more than one identity constraint, and a
\* call that found the constraint has not issued the ALTER TABLE.
IdentityAddedAtMostOnce ==
  /\ db[tbl_bhash].pk <= 1
  /\ \A p \in Procs : ~(loc[p].sawPk /\ loc[p].alterIssued)

\* two first-time calls overlapped, one added the constraint and committed;
\* a later call found the constraint
IdentityAddedAtMostOnceWitness ==
  /\ db[tbl_bhash].pk = 1
  /\ \E p, q \in Procs :
       /\ p # q
       /\ IsHash(p) /\ IsHash(q)
       /\ ~loc[q].sawTable /\ res[q].err = "DuplicateTable"
       /\ ReturnedOk(p, "create_bronze_hash") /\ loc[p].sawPk

\* C8: a call that found the hashed table without its constraint and issued
\* the ALTER TABLE returns normally, and the table then has one constraint.
RacingProvisionersBothSucceed ==
  \A p \in Procs :
    (IsHash(p) /\ loc[p].sawTable /\ loc[p].alterIssued /\ pc[p] = "idle")
    => (res[p].err = "none" /\ db[tbl_bhash].pk = 1)

\* C9: no call fails in step 1 because the table it did not find was created
\* by another process in the meantime.
EnsureTableNeverFails ==
  \A p \in Procs : res[p].err # "DuplicateTable"

\* C10: a merge into a provisioned hashed target commits, and the target then
\* holds every identity of its batch.
ConcurrentMergesBothCommit ==
  \A p \in Procs :
    (IsHash(p) /\ loc[p].sawTable /\ loc[p].sawPk /\ pc[p] = "idle")
    => (res[p].err = "none" /\ Keys(loc[p].df) \subseteq Keys(Hashed))


\* C11: once a call of _write_df has ended, the session has no staging table.
StagingGoneAfterCall ==
  \A p \in Procs : pc[p] = "idle" => \A t \in Tables : ~sess[p][t].exists

\* C12: a call that fails inside its transaction leaves every committed table
\* as it was (no ensured table, no primary key, no merged row persists), and
\* the committed tables change only in the step of a successful COMMIT, which
\* adds all the rows the call inserted at once.
FailureLeavesTargetUnmodified ==
  [][/\ \A p \in Procs :
          (tx[p].active /\ pc'[p] = "idle" /\ res'[p].err # "none") => db' = db
     /\ db' # db =>
          \E p \in Procs :
            /\ pc[p] = "commit" /\ pc'[p] = "idle" /\ res'[p].err = "none"
            /\ \A t \in Tables \ {Tgt(p)} : db'[t] = db[t]
            /\ BagSize(db'[Tgt(p)].rows) = BagSize(db[Tgt(p)].rows) + BagSize(tx[p].ins)]_vars

\* a merge that had created the hashed table and gone on to add its primary
\* key failed in the store, and the hashed table does not exist
FailureLeavesTargetUnmodifiedWitness ==
  \E p \in Procs :
    /\ pc[p] = "idle" /\ res[p].err = "StoreError" /\ res[p].op = "create_bronze_hash"
    /\ ~loc[p].sawTable /\ loc[p].alterIssued
    /\ db[tbl_bhash] = NoTable
    /\ \A q \in Procs : ~tx[q].active

\* C13: whenever the batch's column set differs from the existing target's
\* column set, in either direction, staging fails: no call gets past staging
\* with a batch whose columns are not exactly the target's.
StagingRejectsEveryShapeMismatch ==
  \A p \in Procs :
    pc[p] \in {"pk_check", "alter", "insert", "append", "commit"} =>
      loc[p].cols = VisCols(p)

\* C14: for every value that is neither null nor the empty string,
\* whitespace-only strings and spellings of the sentinel included, _norm gives
\* a token different from the token of None.
NullTokenOnlyForNullAndEmpty ==
  (hin.kind = "norm" /\ hout.done /\ ~hin.v.null /\ hin.v.s # <<>>) =>
    hout.norm # hout.ofNone

\* C15: two column sequences of the same length whose normalized tokens
\* differ are joined to different strings.
JoinedStringIsInjective ==
  (hin.kind = "join" /\ hout.done /\ hout.toksA # hout.toksB) =>
    hout.joinedA # hout.joinedB

\* C16: two column sequences of the same length whose elements differ only
\* in letter case, surrounding whitespace, the length of whitespace runs or
\* null versus empty string have the same digest.
DigestIgnoresFormatting ==
  (hin.kind = "format" /\ hout.done) => hout.digestA = hout.digestB

\* digests were taken of two sequences whose first columns differ in case and
\* in the length of an inner whitespace run, and whose second columns are
\* null and the empty string
DigestIgnoresFormattingWitness ==
  /\ hout.done
  /\ hin.kind = "format"
  /\ hin.a = <<Str(<<"a", " ", " ", "a">>), None>>
  /\ hout.b = <<Str(<<"A", " ", "a">>), Str(<<>>)>>
  /\ hout.digestA = hout.digestB

\* two raw records are the same but for one attribute column
DifferInOneAttribute(r, s) ==
  \E k \in 3..Len(columns) :
    /\ r[k] # s[k]
    /\ \A j \in (1..Len(columns)) \ {k} : r[j] = s[j]

\* both records are rows of the hashed table, with one bk_hash and two
\* row_hash values
PersistedAsTwoVersions(r, s) ==
  \E h1 \in BagToSet(Hashed), h2 \in BagToSet(Hashed) :
    /\ Tokens(h1.cols) = Tokens(r)
    /\ Tokens(h2.cols) = Tokens(s)
    /\ h1.bk_hash = h2.bk_hash
    /\ h1.row_hash # h2.row_hash

\* C17 as stated: two raw records that differ only in one attribute column,
\* once merged, are two rows of the hashed table with the same bk_hash and
\* different row_hash values.
AttributeChangeIsNewVersion ==
  \A r \in fed, s \in fed :
    DifferInOneAttribute(r, s) => PersistedAsTwoVersions(r, s)

\* C17, amended: two raw records that differ only in one attribute column,
\* and there in more than formatting (their normalized tokens differ), once
\* merged, are two rows of the hashed table with the same bk_hash and
\* different row_hash values.
NormalizedAttributeChangeIsNewVersion ==
  \A r \in fed, s \in fed :
    (DifferInOneAttribute(r, s) /\ Tokens(r) # Tokens(s)) => PersistedAsTwoVersions(r, s)

\* two merged raw records differ in one attribute column, there in more than
\* formatting, and are two rows of the hashed table
NormalizedAttributeChangeIsNewVersionWitness ==
  \E r \in fed, s \in fed :
    /\ DifferInOneAttribute(r, s)
    /\ Tokens(r) # Tokens(s)
    /\ PersistedAsTwoVersions(r, s)
    /\ BagSize(Hashed) >= 2

\* C18: from the end of staging to the end of the call, the INSERT ... SELECT
\* included, the staging table of the call holds exactly the rows of the
\* call's batch, whatever an earlier call left in the session; and no call
\* fails because an earlier staging table is in the way.
StagingIsFreshAtInsert ==
  \A p \in Procs :
    /\ pc[p] \in {"pk_check", "alter", "insert", "append", "commit"} =>
         (tx[p].temp.exists /\ tx[p].temp.rows = loc[p].df)
    /\ res[p].err # "DuplicateTemp"

\* a call is about to run its INSERT on a session in which an earlier call
\* on the same table left a staging table with other rows
StagingIsFreshAtInsertWitness ==
  \E p \in Procs :
    /\ pc[p] \in {"pk_check", "append"}
    /\ sess[p][Tgt(p)].exists
    /\ sess[p][Tgt(p)].rows # EmptyBag
    /\ sess[p][Tgt(p)].rows # loc[p].df
    /\ tx[p].temp.rows = loc[p].df

\* C19: the committed hashed table exists exactly if it has its identity
\* constraint, and a transaction that has inserted rows into the hashed table
\* sees the constraint on it.
HashedExistsIffConstrained ==
  /\ db[tbl_bhash].exists <=> db[tbl_bhash].pk >= 1
  /\ \A p \in Procs :
       (tx[p].active /\ IsHash(p) /\ tx[p].ins # EmptyBag) => VisPk(p) >= 1

\* the hashed table is committed with its constraint and rows, and a later
\* merge has inserted a row that is not yet committed
HashedExistsIffConstrainedWitness ==
  /\ db[tbl_bhash].exists
  /\ db[tbl_bhash].pk >= 1
  /\ Hashed # EmptyBag
  /\ \E p \in Procs : tx[p].active /\ IsHash(p) /\ tx[p].ins # EmptyBag /\ loc[p].sawPk

\* C20: a call of create_bronze_hash that finds the raw table existing and
\* empty returns 0 and writes nothing: it opens no transaction, and the
\* committed tables (the hashed table, its constraint) and the session's
\* staging tables are as before.
EmptyRawMeansNoWrite ==
  [][\A p \in Procs :
       ( /\ pc[p] = "idle"
         /\ ops' = ops + 1
         /\ loc'[p].op = "create_bronze_hash"
         /\ (pc'[p] # "idle" \/ res'[p] # res[p] \/ loc'[p] # loc[p])
         /\ db[tbl_bronze].exists
         /\ Bronze = EmptyBag )
       => /\ res'[p].op = "create_bronze_hash" /\ res'[p].ret = 0 /\ res'[p].err = "none"
          /\ pc'[p] = "idle"
          /\ db' = db /\ sess' = sess /\ tx' = tx]_vars

\* create_bronze_hash has returned 0 on an empty raw table while a hashed
\* table with a row exists
EmptyRawMeansNoWriteWitness ==
  \E p \in Procs :
    /\ ReturnedOk(p, "create_bronze_hash")
    /\ res[p].ret = 0
    /\ db[tbl_bronze].exists
    /\ Bronze = EmptyBag
    /\ db[tbl_bhash] = HashedBefore

====
